---- MODULE Spec2Model ----
(***************************************************************************)
(* Shortest-path engine of src/lib/dijkstra.ts (dijkstra + PriorityQueue). *)
(* One invocation dijkstra(graph, startNode, endNode) is a state machine:  *)
(* the initialisation loop, the main loop (dequeue, skip / end test,       *)
(* relaxation of one neighbor per step), the predecessor walk and the      *)
(* return.  A JavaScript object is modelled with its property order: the   *)
(* graph is a sequence of [node, adj] entries, adj a sequence of           *)
(* [neighbor, weight] entries.                                             *)
(***************************************************************************)
EXTENDS Integers, Sequences, FiniteSets

(* ---------------------------- bounds ----------------------------------- *)
\* largest edge weight of the graphs explored
MaxWeight == 1
\* the most negative edge weight explored is 0 - MaxNeg
MaxNeg == 1

\* node identifiers: strings, the empty string among them
Nodes == {"", "A", "B", "C"}
\* one identifier always stays outside the key set (a neighbor-only name)
MaxKeys == Cardinality(Nodes) - 1

(* ------------------------ JavaScript values ---------------------------- *)
\* Number.POSITIVE_INFINITY; every finite value of a run is far below it
Infinity == 1000000
\* the value null of previousNodes[node] = null, and of "return null"
Null == "<null>"
\* the value of a missing property
Undefined == "<undefined>"

\* !x for x a string, null or undefined
Falsy(x) == x \in {"", Null, Undefined}

\* a + b on numbers (Infinity + finite = Infinity)
Plus(a, b) == IF a = Infinity \/ b = Infinity THEN Infinity ELSE a + b

(* ------------------------------ state ---------------------------------- *)
VARIABLES
    graph,          \* the argument graph
    startNode,      \* the argument startNode
    endNode,        \* the argument endNode
    distances,      \* const distances
    previousNodes,  \* const previousNodes
    pq,             \* pq.elements
    pc,             \* position of the invocation
    currentNode,    \* const currentNode of the current loop iteration
    nbrIdx,         \* position of the for-in loop over graph[currentNode]
    path,           \* const path of the reconstruction
    tempNode,       \* let tempNode of the reconstruction
    result,         \* the outcome of the invocation
    extracted,      \* history: the entries pq.dequeue() has returned so far
    peer,           \* what lies outside the call frame: another invocation
    input           \* the page's input handed to a graph producer

\* the call frame of one invocation: its arguments, its locals, its outcome
frame == <<graph, startNode, endNode, distances, previousNodes, pq, pc,
           currentNode, nbrIdx, path, tempNode, result, extracted>>

\* what no statement of dijkstra reads or writes
outside == <<peer, input>>

vars == <<graph, startNode, endNode, distances, previousNodes, pq, pc,
          currentNode, nbrIdx, path, tempNode, result, extracted, peer, input>>

\* outcome values: no outcome yet, the return value null, a DijkstraResult
Pending == [kind |-> "pending", path |-> <<>>, distance |-> 0]
NoResult == [kind |-> "null", path |-> <<>>, distance |-> 0]

\* mutant of Found: the value returned is the placeholder the page shows for
\* a missing node, { path: [], distance: Infinity }
FoundPlaceholder(p, d) == [kind |-> "result", path |-> <<>>, distance |-> Infinity]

\* return { path, distance }
Found(p, d) == [kind |-> "result", path |-> p, distance |-> d]

(* ------------------------------ Graph ---------------------------------- *)
Range(s) == {s[i] : i \in 1..Len(s)}

\* Object.keys(graph) as a set
Keys(g) == {g[i].node : i \in 1..Len(g)}

\* for (const node in graph): the keys in property order
KeySeq(g) == [i \in 1..Len(g) |-> g[i].node]

\* graph[n] for a key n: the neighbor entries in property order
Adj(g, n) == g[CHOOSE i \in 1..Len(g) : g[i].node = n].adj

\* the keys of graph[n]
Neighbors(g, n) == {Adj(g, n)[i].neighbor : i \in 1..Len(Adj(g, n))}

\* graph[u][v] for a key u and a neighbor v of u
Weight(g, u, v) ==
    LET a == Adj(g, u)
    IN  a[CHOOSE i \in 1..Len(a) : a[i].neighbor = v].weight

\* there is an entry graph[u][v]
HasEdge(g, u, v) == u \in Keys(g) /\ v \in Neighbors(g, u)

(* -------------------------- PriorityQueue ------------------------------ *)
\* the comparator (a, b) => a.priority - b.priority as the sort reads it:
\* negative, zero or positive; Infinity - Infinity is NaN, which sort takes as 0
Compare(a, b) ==
    IF a.priority = Infinity /\ b.priority = Infinity THEN 0
    ELSE IF a.priority < b.priority THEN 0 - 1
    ELSE IF a.priority > b.priority THEN 1
    ELSE 0

\* mutant of InsertSorted: the place of x among equal priorities depends on
\* whether dijkstra was called before (a sort whose tie order is not a
\* function of the array)
InsertSortedByCallCount(s, x) ==
    LET k == IF peer.kind = "none"
             THEN Cardinality({i \in 1..Len(s) : Compare(s[i], x) <= 0})
             ELSE Cardinality({i \in 1..Len(s) : Compare(s[i], x) < 0})
    IN  SubSeq(s, 1, k) \o <<x>> \o SubSeq(s, k + 1, Len(s))

\* x placed behind every entry that does not compare greater than it
InsertSorted(s, x) ==
    LET k == Cardinality({i \in 1..Len(s) : Compare(s[i], x) <= 0})
    IN  SubSeq(s, 1, k) \o <<x>> \o SubSeq(s, k + 1, Len(s))

RECURSIVE SortInto(_, _)
SortInto(acc, rest) ==
    IF rest = <<>> THEN acc
    ELSE SortInto(InsertSorted(acc, Head(rest)), Tail(rest))

\* this.elements.sort(comparator): Array.prototype.sort is stable
SortElements(elements) == SortInto(<<>>, elements)

\* mutant of Enqueue: the entry is pushed and the array is not sorted
EnqueueNoSort(elements, element, priority) ==
    Append(elements, [element |-> element, priority |-> priority])

\* enqueue(element, priority)
Enqueue(elements, element, priority) ==
    SortElements(Append(elements, [element |-> element, priority |-> priority]))

\* this.elements.findIndex(item => item.element === element); 0 for -1
FindIndex(elements, element) ==
    IF \E i \in 1..Len(elements) : elements[i].element = element
    THEN CHOOSE i \in 1..Len(elements) :
            /\ elements[i].element = element
            /\ \A j \in 1..(i - 1) : elements[j].element # element
    ELSE 0

\* mutant of UpdatePriority: an element that is not queued is inserted
UpdatePriorityOrEnqueue(elements, element, newPriority) ==
    LET index == FindIndex(elements, element)
    IN  IF index > 0
        THEN SortElements([elements EXCEPT ![index].priority = newPriority])
        ELSE SortElements(Append(elements,
                                 [element |-> element, priority |-> newPriority]))

\* mutant of UpdatePriority: the entry before the one found is updated
UpdatePriorityOffByOne(elements, element, newPriority) ==
    LET index == FindIndex(elements, element) - 1
    IN  IF index > 0
        THEN SortElements([elements EXCEPT ![index].priority = newPriority])
        ELSE elements

\* mutant of UpdatePriority: the priority is written and the array is not
\* sorted again
UpdatePriorityNoSort(elements, element, newPriority) ==
    LET index == FindIndex(elements, element)
    IN  IF index > 0
        THEN [elements EXCEPT ![index].priority = newPriority]
        ELSE elements

\* updatePriority(element, newPriority)
UpdatePriority(elements, element, newPriority) ==
    LET index == FindIndex(elements, element)
    IN  IF index > 0
        THEN SortElements([elements EXCEPT ![index].priority = newPriority])
        ELSE elements

\* isEmpty()
IsEmpty(elements) == Len(elements) = 0

(* --------------------------- initialisation ---------------------------- *)
\* mutant of InitialDistance: every key starts at distance 0
InitialDistanceZero(node, start) == 0

\* the initial distance of a key
InitialDistance(node, start) == IF node = start THEN 0 ELSE Infinity

RECURSIVE InitQueueSeedsStart(_, _, _)
\* mutant of InitQueue: the start node is enqueued with priority 0 whether
\* or not it is a key of the graph
InitQueueSeedsStart(elements, keys, start) ==
    IF keys = <<>>
    THEN IF FindIndex(elements, start) > 0 THEN elements ELSE Enqueue(elements, start, 0)
    ELSE InitQueueSeedsStart(
            Enqueue(elements, Head(keys), InitialDistance(Head(keys), start)),
            Tail(keys), start)

RECURSIVE InitQueue(_, _, _)
\* the enqueue calls of the initialisation loop, in key order
InitQueue(elements, keys, start) ==
    IF keys = <<>> THEN elements
    ELSE InitQueue(Enqueue(elements, Head(keys), InitialDistance(Head(keys), start)),
                   Tail(keys), start)

\* for (const node in graph) { ... }
Initialize ==
    /\ pc = "init"
    /\ distances' = [n \in Keys(graph) |-> InitialDistance(n, startNode)]
    /\ previousNodes' = [n \in Keys(graph) |-> Null]
    /\ pq' = InitQueue(pq, KeySeq(graph), startNode)
    /\ pc' = "loop"
    /\ UNCHANGED <<graph, startNode, endNode, currentNode, nbrIdx, path, tempNode, result>>
    /\ UNCHANGED <<extracted, outside>>

(* ------------------------------ main loop ------------------------------ *)
\* !currentNode || distances[currentNode] === Infinity
\* (undefined === Infinity is false)
SkipNode(node, dist) ==
    Falsy(node) \/ (node \in DOMAIN dist /\ dist[node] = Infinity)

\* while (!pq.isEmpty()) fails: return null
ReturnNull ==
    /\ pc = "loop"
    /\ IsEmpty(pq)
    /\ result' = NoResult
    /\ pc' = "done"
    /\ UNCHANGED <<graph, startNode, endNode, distances, previousNodes, pq,
                   currentNode, nbrIdx, path, tempNode>>
    /\ UNCHANGED <<extracted, outside>>

\* dequeue, and the extracted node is skipped (continue)
ExtractSkip ==
    /\ pc = "loop"
    /\ ~IsEmpty(pq)
    /\ SkipNode(Head(pq).element, distances)
    /\ currentNode' = Head(pq).element
    /\ pq' = Tail(pq)
    /\ extracted' = Append(extracted, Head(pq))
    /\ UNCHANGED <<graph, startNode, endNode, distances, previousNodes, pc,
                   nbrIdx, path, tempNode, result>>
    /\ UNCHANGED outside

\* dequeue, and the extracted node is the end node: start the reconstruction
ExtractEnd ==
    /\ pc = "loop"
    /\ ~IsEmpty(pq)
    /\ ~SkipNode(Head(pq).element, distances)
    /\ Head(pq).element = endNode
    /\ currentNode' = Head(pq).element
    /\ pq' = Tail(pq)
    /\ extracted' = Append(extracted, Head(pq))
    /\ path' = <<>>
    /\ tempNode' = endNode
    /\ pc' = "walk"
    /\ UNCHANGED <<graph, startNode, endNode, distances, previousNodes, nbrIdx, result>>
    /\ UNCHANGED outside

\* mutant of NeighborEntries: graph[endNode] is read in place of
\* graph[currentNode]
NeighborEntriesOfEnd(g, node) == IF endNode \in Keys(g) THEN Adj(g, endNode) ELSE <<>>

\* for (const neighbor in graph[currentNode]): the entries the loop visits,
\* none when graph[currentNode] is undefined (if (!graph[currentNode]) continue)
NeighborEntries(g, node) == IF node \in Keys(g) THEN Adj(g, node) ELSE <<>>

\* dequeue, and the extracted node is expanded: enter the neighbor loop
ExtractExpand ==
    /\ pc = "loop"
    /\ ~IsEmpty(pq)
    /\ ~SkipNode(Head(pq).element, distances)
    /\ Head(pq).element # endNode
    /\ currentNode' = Head(pq).element
    /\ pq' = Tail(pq)
    /\ extracted' = Append(extracted, Head(pq))
    /\ nbrIdx' = 1
    /\ pc' = IF Len(NeighborEntries(graph, Head(pq).element)) > 0
             THEN "relax" ELSE "loop"
    /\ UNCHANGED <<graph, startNode, endNode, distances, previousNodes, path,
                   tempNode, result>>
    /\ UNCHANGED outside

\* mutant of NewDistance: every edge counts 1
NewDistanceCountsHops(dist, node, weight) == Plus(dist[node], 1)

\* distances[currentNode] + graph[currentNode][neighbor]
NewDistance(dist, node, weight) == Plus(dist[node], weight)

\* mutant of Improves: the comparison is left out, every neighbor that has a
\* distance is updated
ImprovesAlways(newDistance, dist, neighbor) == neighbor \in DOMAIN dist

\* mutant of Improves: a neighbor without a distance counts as infinitely far
ImprovesOnMissing(newDistance, dist, neighbor) ==
    neighbor \notin DOMAIN dist \/ newDistance < dist[neighbor]

\* mutant of Improves: <= in place of <
ImprovesOrEquals(newDistance, dist, neighbor) ==
    neighbor \in DOMAIN dist /\ newDistance <= dist[neighbor]

\* newDistance < distances[neighbor]; false when distances[neighbor] is undefined
Improves(newDistance, dist, neighbor) ==
    neighbor \in DOMAIN dist /\ newDistance < dist[neighbor]

\* obj[key] = value
SetProp(obj, key, value) ==
    [k \in DOMAIN obj \cup {key} |-> IF k = key THEN value ELSE obj[k]]

\* g with graph[u][v] = x written into it, for an entry graph[u][v] of g
WithWeight(g, u, v, x) ==
    [i \in 1..Len(g) |->
        IF g[i].node # u THEN g[i]
        ELSE [g[i] EXCEPT !.adj =
                [j \in 1..Len(g[i].adj) |->
                    IF g[i].adj[j].neighbor = v
                    THEN [g[i].adj[j] EXCEPT !.weight = x]
                    ELSE g[i].adj[j]]]]

\* mutant of RelaxEffect: the distance is written and pq.updatePriority is
\* not called
RelaxEffectNoUpdate(g, dist, prev, elements, node, entry) ==
    LET newDistance == NewDistance(dist, node, entry.weight)
    IN  IF Improves(newDistance, dist, entry.neighbor)
        THEN [graph         |-> g,
              distances     |-> SetProp(dist, entry.neighbor, newDistance),
              previousNodes |-> SetProp(prev, entry.neighbor, node),
              pq            |-> elements]
        ELSE [graph |-> g, distances |-> dist, previousNodes |-> prev, pq |-> elements]

\* mutant of RelaxEffect: the new distance is also stored in the graph,
\* graph[currentNode][neighbor] = newDistance
RelaxEffectWritesGraph(g, dist, prev, elements, node, entry) ==
    LET newDistance == NewDistance(dist, node, entry.weight)
    IN  IF Improves(newDistance, dist, entry.neighbor)
        THEN [graph         |-> WithWeight(g, node, entry.neighbor, newDistance),
              distances     |-> SetProp(dist, entry.neighbor, newDistance),
              previousNodes |-> SetProp(prev, entry.neighbor, node),
              pq            |-> UpdatePriority(elements, entry.neighbor, newDistance)]
        ELSE [graph |-> g, distances |-> dist, previousNodes |-> prev, pq |-> elements]

\* mutant of RelaxEffect: the distance is lowered and previousNodes is left
\* as it was
RelaxEffectKeepsPredecessor(g, dist, prev, elements, node, entry) ==
    LET newDistance == NewDistance(dist, node, entry.weight)
    IN  IF Improves(newDistance, dist, entry.neighbor)
        THEN [graph         |-> g,
              distances     |-> SetProp(dist, entry.neighbor, newDistance),
              previousNodes |-> prev,
              pq            |-> UpdatePriority(elements, entry.neighbor, newDistance)]
        ELSE [graph |-> g, distances |-> dist, previousNodes |-> prev, pq |-> elements]

\* mutant of RelaxEffect: the neighbor is recorded as its own predecessor,
\* previousNodes[neighbor] = neighbor
RelaxEffectSelfPredecessor(g, dist, prev, elements, node, entry) ==
    LET newDistance == NewDistance(dist, node, entry.weight)
    IN  IF Improves(newDistance, dist, entry.neighbor)
        THEN [graph         |-> g,
              distances     |-> SetProp(dist, entry.neighbor, newDistance),
              previousNodes |-> SetProp(prev, entry.neighbor, entry.neighbor),
              pq            |-> UpdatePriority(elements, entry.neighbor, newDistance)]
        ELSE [graph |-> g, distances |-> dist, previousNodes |-> prev, pq |-> elements]

\* the body of for (const neighbor in graph[currentNode]) for one entry:
\* what it leaves in the objects it can reach
RelaxEffect(g, dist, prev, elements, node, entry) ==
    LET newDistance == NewDistance(dist, node, entry.weight)
    IN  IF Improves(newDistance, dist, entry.neighbor)
        THEN [graph         |-> g,
              distances     |-> SetProp(dist, entry.neighbor, newDistance),
              previousNodes |-> SetProp(prev, entry.neighbor, node),
              pq            |-> UpdatePriority(elements, entry.neighbor, newDistance)]
        ELSE [graph |-> g, distances |-> dist, previousNodes |-> prev, pq |-> elements]

\* one iteration of for (const neighbor in graph[currentNode])
Relax ==
    /\ pc = "relax"
    /\ LET eff == RelaxEffect(graph, distances, previousNodes, pq, currentNode,
                              NeighborEntries(graph, currentNode)[nbrIdx])
       IN  /\ graph' = eff.graph
           /\ distances' = eff.distances
           /\ previousNodes' = eff.previousNodes
           /\ pq' = eff.pq
    /\ nbrIdx' = nbrIdx + 1
    /\ pc' = IF nbrIdx < Len(NeighborEntries(graph, currentNode)) THEN "relax" ELSE "loop"
    /\ UNCHANGED <<startNode, endNode, currentNode, path, tempNode, result>>
    /\ UNCHANGED <<extracted, outside>>

(* --------------------------- reconstruction ---------------------------- *)
\* path[0], undefined for the empty array
First(p) == IF Len(p) = 0 THEN Undefined ELSE p[1]

\* obj[n] for one of the two tables, undefined for a missing key
Lookup(table, n) == IF n \in DOMAIN table THEN table[n] ELSE Undefined

\* the outcome of a reconstruction loop that never exits
Diverged == [kind |-> "diverged", path |-> <<>>, distance |-> 0]

RECURSIVE SecondWalk(_, _, _, _)
\* let current = endNode; while (current !== null && current !== undefined) ...
\* the reconstructedPath; exits = FALSE when the loop revisits a node and so
\* never exits
SecondWalk(current, acc, prev, start) ==
    IF current \in {Null, Undefined} THEN [exits |-> TRUE, path |-> acc]
    ELSE IF current \in Range(acc) THEN [exits |-> FALSE, path |-> acc]
    ELSE IF current = start THEN [exits |-> TRUE, path |-> <<current>> \o acc]
    ELSE SecondWalk(Lookup(prev, current), <<current>> \o acc, prev, start)

\* distances[endNode] !== Infinity (true for undefined)
NotInfinity(dist, n) == n \notin DOMAIN dist \/ dist[n] # Infinity

\* mutant of Finish: the test of line 49 reads path[0] === startNode, so the
\* start node is put in front of a path that already begins with it
FinishUnshiftsStartAgain(p, dist, prev, start, end) ==
    LET p1 == IF First(p) = start /\ start = end THEN <<start>> \o p ELSE p
    IN  IF First(p1) # start
        THEN IF NotInfinity(dist, end)
             THEN IF Len(p1) = 0 /\ start = end
                  THEN Found(<<start>>, Lookup(dist, end))
                  ELSE LET r == SecondWalk(end, <<>>, prev, start)
                       IN  IF ~r.exits THEN Diverged
                           ELSE IF First(r.path) = start /\ NotInfinity(dist, end)
                           THEN Found(r.path, Lookup(dist, end))
                           ELSE NoResult
             ELSE NoResult
        ELSE Found(p1, Lookup(dist, end))

\* the code behind the first predecessor walk: the fallback branches and
\* the return, for the path p the walk has built
Finish(p, dist, prev, start, end) ==
    LET p1 == IF First(p) # start /\ start = end THEN <<start>> \o p ELSE p
    IN  IF First(p1) # start
        THEN IF NotInfinity(dist, end)
             THEN IF Len(p1) = 0 /\ start = end
                  THEN Found(<<start>>, Lookup(dist, end))
                  ELSE LET r == SecondWalk(end, <<>>, prev, start)
                       IN  IF ~r.exits THEN Diverged
                           ELSE IF First(r.path) = start /\ NotInfinity(dist, end)
                           THEN Found(r.path, Lookup(dist, end))
                           ELSE NoResult
             ELSE NoResult
        ELSE Found(p1, Lookup(dist, end))

\* while (tempNode !== null && previousNodes[tempNode] !== undefined)
WalkCondition(node, prev) == node # Null /\ Lookup(prev, node) # Undefined

\* the outcome of one pass through the walk loop, Pending when the loop goes on
WalkOutcome(p, node, dist, prev, start, end) ==
    IF ~WalkCondition(node, prev) THEN Finish(p, dist, prev, start, end)
    ELSE IF node = start THEN Finish(<<node>> \o p, dist, prev, start, end)
    ELSE IF Falsy(prev[node]) /\ start # end THEN NoResult
    ELSE Pending

\* one pass through the loop of the first walk, the code behind it included
\* when the loop is left
WalkStep ==
    /\ pc = "walk"
    /\ tempNode \notin Range(path)
    /\ LET out == WalkOutcome(path, tempNode, distances, previousNodes, startNode, endNode)
       IN  IF out = Pending
           THEN /\ path' = <<tempNode>> \o path
                /\ tempNode' = previousNodes[tempNode]
                /\ UNCHANGED <<pc, result>>
           ELSE IF out = Diverged
           THEN /\ pc' = "diverged"
                /\ UNCHANGED <<path, tempNode, result>>
           ELSE /\ result' = out
                /\ path' = out.path
                /\ pc' = "done"
                /\ UNCHANGED tempNode
    /\ UNCHANGED <<graph, startNode, endNode, distances, previousNodes, pq,
                   currentNode, nbrIdx>>
    /\ UNCHANGED <<extracted, outside>>

\* the walk is back at a node it has already put in path: previousNodes does
\* not change during the walk, so the loop never exits and path grows until
\* the runtime gives up; the invocation returns nothing
WalkDiverge ==
    /\ pc = "walk"
    /\ tempNode \in Range(path)
    /\ pc' = "diverged"
    /\ UNCHANGED <<graph, startNode, endNode, distances, previousNodes, pq,
                   currentNode, nbrIdx, path, tempNode, result>>
    /\ UNCHANGED <<extracted, outside>>

(* ------------------------------- graphs -------------------------------- *)
\* identifiers other than the empty string are interchangeable, so the keys
\* that are letters are taken in this order
Letters == <<"A", "B", "C">>

\* s with the empty string put at position p (p = 0: left out)
WithEmpty(s, p) ==
    IF p = 0 THEN s ELSE SubSeq(s, 1, p - 1) \o <<"">> \o SubSeq(s, p, Len(s))

\* the key orders explored
KeyOrders ==
    {ks \in UNION {{WithEmpty(SubSeq(Letters, 1, m), p) : p \in 0..(m + 1)} :
                   m \in 0..Len(Letters)} :
        Len(ks) <= MaxKeys}

Weights == (0 - MaxNeg)..MaxWeight
NoEdge == 0 - MaxNeg - 1

\* every identifier: the keys ks first, then the others
AllNames(ks) ==
    ks \o SelectSeq(Letters \o <<"">>, LAMBDA n : n \notin Range(ks))

\* the object with keys ks where graph[u][v] = w[<<u, v>>] for every pair that
\* has a weight, the neighbors of every key inserted in the order ord
MakeGraph(ks, ord, w) ==
    [i \in 1..Len(ks) |->
        [node |-> ks[i],
         adj  |-> LET nb == SelectSeq(ord, LAMBDA v : w[<<ks[i], v>>] # NoEdge)
                  IN  [j \in 1..Len(nb) |-> [neighbor |-> nb[j], weight |-> w[<<ks[i], nb[j]>>]]]]]

\* mirrored, non-negative weights between distinct keys: what parseAdjacencyList
\* and reactFlowToGraph build from edges between different nodes
MirroredWeightings(ks) ==
    LET pairs == {{u, v} : u, v \in Range(ks)} \ {{u} : u \in Range(ks)}
    IN  {[p \in Nodes \X Nodes |->
            IF {p[1], p[2]} \in pairs THEN f[{p[1], p[2]}] ELSE NoEdge] :
         f \in [pairs -> {NoEdge} \cup 0..MaxWeight]}

\* no further entry, or one entry graph[u][v] = x written on top of the
\* mirrored ones: from a key u to any identifier v (u itself, another key or
\* an identifier that is no key), x of either sign
OneWayEntries(ks) ==
    {<<>>} \cup {<<[from |-> u, to |-> v, weight |-> x]>> :
                 u \in Range(ks), v \in Nodes, x \in Weights}

\* the weighting w with the entries of extra written over it
Overwrite(w, extra) ==
    [p \in Nodes \X Nodes |->
        IF \E i \in 1..Len(extra) : <<extra[i].from, extra[i].to>> = p
        THEN extra[CHOOSE i \in 1..Len(extra) : <<extra[i].from, extra[i].to>> = p].weight
        ELSE w[p]]

\* the graphs explored
Graphs ==
    UNION {{MakeGraph(ks, AllNames(ks), Overwrite(w, extra)) :
            w \in MirroredWeightings(ks), extra \in OneWayEntries(ks)} :
           ks \in KeyOrders}

(* --------------------------- specification ----------------------------- *)
\* the call frame before the initialisation loop: const distances = {},
\* const previousNodes = {}, const pq = new PriorityQueue()
NewFrame ==
    /\ distances = [n \in {} |-> 0]
    /\ previousNodes = [n \in {} |-> Null]
    /\ pq = <<>>
    /\ pc = "init"
    /\ currentNode = Undefined
    /\ nbrIdx = 0
    /\ path = <<>>
    /\ tempNode = Undefined
    /\ result = Pending
    /\ extracted = <<>>

\* no other invocation, no producer input
Nothing == [kind |-> "none"]

\* the call dijkstra(graph, startNode, endNode), before its first statement
Init ==
    /\ graph \in Graphs
    /\ startNode \in Nodes
    /\ endNode \in Nodes
    /\ NewFrame
    /\ peer = Nothing
    /\ input = Nothing

Next ==
    \/ Initialize
    \/ ReturnNull
    \/ ExtractSkip
    \/ ExtractEnd
    \/ ExtractExpand
    \/ Relax
    \/ WalkStep
    \/ WalkDiverge

Spec == Init /\ [][Next]_vars

(* ----------------- graph producers of the page (page.tsx) -------------- *)
\* the longest adjacency list (lines) and edge list (edges) explored
MaxLines == 2
\* the largest number of node names of an adjacency matrix explored
MaxNames == 2

\* the value NaN: a number apart from every number a run computes; each
\* producer tests isNaN before it compares the weight
NaN == 0 - Infinity - 1

\* a numeric string is modelled as the sequence of its characters
Digits == <<"0", "1", "2", "3", "4", "5", "6", "7", "8", "9">>
IsDigit(c) == \E d \in 1..Len(Digits) : Digits[d] = c
DigitValue(c) == (CHOOSE d \in 1..Len(Digits) : Digits[d] = c) - 1

RECURSIVE LeadingDigits(_, _)
\* the value of the longest prefix of s made of digits, read after acc
LeadingDigits(s, acc) ==
    IF s = <<>> \/ ~IsDigit(Head(s)) THEN acc
    ELSE LeadingDigits(Tail(s), 10 * acc + DigitValue(Head(s)))

\* parseInt(s, 10): an optional sign, then the leading digits; NaN without a
\* digit; what follows the digits is ignored
ParseInt(s) ==
    LET negative == s # <<>> /\ Head(s) = "-"
        body == IF negative THEN Tail(s) ELSE s
    IN  IF body = <<>> \/ ~IsDigit(Head(body)) THEN NaN
        ELSE IF negative THEN 0 - LeadingDigits(body, 0)
        ELSE LeadingDigits(body, 0)

\* if (!newGraph[n]) newGraph[n] = {}
EnsureKey(g, n) ==
    IF n \in Keys(g) THEN g ELSE Append(g, [node |-> n, adj |-> <<>>])

\* obj[v] = x on the neighbor object adj: an existing property keeps its place
SetNeighbor(adj, v, x) ==
    IF \E j \in 1..Len(adj) : adj[j].neighbor = v
    THEN [j \in 1..Len(adj) |->
            IF adj[j].neighbor = v THEN [adj[j] EXCEPT !.weight = x] ELSE adj[j]]
    ELSE Append(adj, [neighbor |-> v, weight |-> x])

\* newGraph[u][v] = x, for a key u
SetEntry(g, u, v, x) ==
    [i \in 1..Len(g) |->
        IF g[i].node = u THEN [g[i] EXCEPT !.adj = SetNeighbor(g[i].adj, v, x)]
        ELSE g[i]]

\* newGraph[u][v] = x; newGraph[v][u] = x
SetMirrored(g, u, v, x) == SetEntry(SetEntry(g, u, v, x), v, u, x)

\* what a producer returns: a graph, or null after a thrown error
Produced(g) == [ok |-> TRUE, graph |-> g]
Rejected == [ok |-> FALSE, graph |-> <<>>]

\* isNaN(weight) || weight < 0 of parseAdjacencyList
ListWeightInvalid(weight) == weight = NaN \/ weight < 0

RECURSIVE ParseLines(_, _)
\* the loop over the lines of parseAdjacencyList; a line is the sequence of
\* its parts, line.trim().split(/\s+/), empty for a blank line
ParseLines(g, lines) ==
    IF lines = <<>> THEN Produced(g)
    ELSE LET parts == Head(lines)
         IN  IF parts = <<>> THEN ParseLines(g, Tail(lines))
             ELSE IF Len(parts) # 3 THEN Rejected
             ELSE IF ListWeightInvalid(ParseInt(parts[3])) THEN Rejected
             ELSE ParseLines(
                     SetMirrored(EnsureKey(EnsureKey(g, parts[1]), parts[2]),
                                 parts[1], parts[2], ParseInt(parts[3])),
                     Tail(lines))

\* parseAdjacencyList(input)
ParseAdjacencyList(lines) == ParseLines(<<>>, lines)

\* mutant of MatrixWeightKept: every entry other than 0 is an edge
MatrixWeightNonZero(weight) == weight # 0

\* if (weight > 0) of parseAdjacencyMatrix
MatrixWeightKept(weight) == weight > 0

RECURSIVE ParseRow(_, _, _, _, _)
\* the loop over the columns j of row i of parseAdjacencyMatrix
ParseRow(g, names, i, row, j) ==
    IF j > Len(row) THEN Produced(g)
    ELSE LET weight == ParseInt(row[j])
         IN  IF weight = NaN THEN Rejected
             ELSE ParseRow(IF MatrixWeightKept(weight)
                           THEN SetEntry(g, names[i], names[j], weight) ELSE g,
                           names, i, row, j + 1)

RECURSIVE ParseRows(_, _, _, _)
\* the loop over the rows i of parseAdjacencyMatrix; a row is the sequence of
\* its parts
ParseRows(g, names, rows, i) ==
    IF i > Len(rows) THEN Produced(g)
    ELSE IF Len(rows[i]) # Len(names) THEN Rejected
    ELSE LET r == ParseRow(g, names, i, rows[i], 1)
         IN  IF ~r.ok THEN Rejected ELSE ParseRows(r.graph, names, rows, i + 1)

\* parseAdjacencyMatrix(matrixStr, nodeNamesStr): names are the trimmed,
\* non-empty node names, rows the non-blank rows of the matrix
ParseAdjacencyMatrix(names, rows) ==
    IF Len(names) = 0 THEN (IF Len(rows) # 0 THEN Rejected ELSE Produced(<<>>))
    ELSE IF Cardinality(Range(names)) # Len(names) THEN Rejected
    ELSE IF Len(rows) > 0 /\ Len(rows) # Len(names) THEN Rejected
    ELSE ParseRows([i \in 1..Len(names) |-> [node |-> names[i], adj |-> <<>>]],
                   names, rows, 1)

\* !isNaN(weight) && weight >= 0 of reactFlowToGraph
FlowWeightKept(weight) == weight # NaN /\ weight >= 0

RECURSIVE FlowNodes(_, _)
\* nodes.forEach(node => ...) of reactFlowToGraph
FlowNodes(g, ids) ==
    IF ids = <<>> THEN g ELSE FlowNodes(EnsureKey(g, Head(ids)), Tail(ids))

RECURSIVE FlowEdges(_, _)
\* edges.forEach(edge => ...) of reactFlowToGraph
FlowEdges(g, edges) ==
    IF edges = <<>> THEN g
    ELSE LET edge == Head(edges)
             g1 == EnsureKey(EnsureKey(g, edge.source), edge.target)
             weight == ParseInt(edge.label)
         IN  FlowEdges(IF FlowWeightKept(weight)
                       THEN SetMirrored(g1, edge.source, edge.target, weight)
                       ELSE g1,
                       Tail(edges))

\* reactFlowToGraph(nodes, edges)
ReactFlowToGraph(ids, edges) == Produced(FlowEdges(FlowNodes(<<>>, ids), edges))

(* --------------------- the producers, run on inputs -------------------- *)
\* node names and numeric strings of the inputs explored
ProducerNames == <<"A", "B", "C">>
ListTokens == {<<"0">>, <<"2">>, <<"-", "1">>, <<"x">>}
MatrixTokens == {<<"0">>, <<"1">>, <<"-", "1">>, <<"x">>}
LabelTokens == {<<"1">>, <<"-", "2">>, <<"1", "x">>}

\* the sequences over S of length at most n
SeqUpTo(S, n) == UNION {[1..k -> S] : k \in 0..n}

\* the lines of an adjacency list: blank, of two parts, of three parts
ListLines ==
    {<<>>, <<"A", "B">>} \cup
    {<<u, v, tok>> : u \in Range(ProducerNames), v \in Range(ProducerNames),
                     tok \in ListTokens}

\* the node names of an adjacency matrix: the first names, a name given
\* twice, none
MatrixNames ==
    {SubSeq(ProducerNames, 1, n) : n \in 0..MaxNames} \cup {<<"A", "A">>}

\* the labelled edges of the drawing
FlowEdgeSet ==
    {[source |-> u, target |-> v, label |-> tok] :
     u \in Range(ProducerNames), v \in Range(ProducerNames), tok \in LabelTokens}

\* the inputs explored: adjacency lists; matrices with as many columns as
\* names in every row and at most as many rows, with a single row that is one
\* column short, with a row and no name; drawings
IsInput(in) ==
    \/ \E ls \in SeqUpTo(ListLines, MaxLines) : in = [kind |-> "list", lines |-> ls]
    \/ \E names \in MatrixNames : \E m \in 0..Len(names) :
         \E rows \in [1..m -> [1..Len(names) -> MatrixTokens]] :
            in = [kind |-> "matrix", names |-> names, rows |-> rows]
    \/ \E names \in MatrixNames :
         \E row \in [1..(IF Len(names) = 0 THEN 1 ELSE Len(names) - 1) -> MatrixTokens] :
            in = [kind |-> "matrix", names |-> names, rows |-> <<row>>]
    \/ \E ids \in {<<>>, <<"A">>, <<"B", "A">>} :
         \E es \in SeqUpTo(FlowEdgeSet, MaxLines) :
            in = [kind |-> "flow", nodes |-> ids, edges |-> es]

\* the page holds an input and has not run a producer on it
ProducerInit ==
    /\ IsInput(input)
    /\ graph = <<>>
    /\ startNode = "A"
    /\ endNode = "F"
    /\ distances = [n \in {} |-> 0]
    /\ previousNodes = [n \in {} |-> Null]
    /\ pq = <<>>
    /\ pc = "page"
    /\ currentNode = Undefined
    /\ nbrIdx = 0
    /\ path = <<>>
    /\ tempNode = Undefined
    /\ result = Pending
    /\ extracted = <<>>
    /\ peer = Nothing

\* currentGraph = <producer>(...): the graph returned, or null
Return(r) ==
    /\ graph' = r.graph
    /\ pc' = IF r.ok THEN "produced" ELSE "rejected"
    /\ UNCHANGED <<startNode, endNode, distances, previousNodes, pq, currentNode,
                   nbrIdx, path, tempNode, result, extracted, peer, input>>

RunParseAdjacencyList ==
    /\ pc = "page"
    /\ input.kind = "list"
    /\ Return(ParseAdjacencyList(input.lines))

RunParseAdjacencyMatrix ==
    /\ pc = "page"
    /\ input.kind = "matrix"
    /\ Return(ParseAdjacencyMatrix(input.names, input.rows))

RunReactFlowToGraph ==
    /\ pc = "page"
    /\ input.kind = "flow"
    /\ Return(ReactFlowToGraph(input.nodes, input.edges))

ProducerNext ==
    \/ RunParseAdjacencyList
    \/ RunParseAdjacencyMatrix
    \/ RunReactFlowToGraph

ProducerSpec == ProducerInit /\ [][ProducerNext]_vars

(* ------------------ several invocations of dijkstra -------------------- *)
\* the call frame in the variables, as one value
ThisFrame ==
    [graph |-> graph, startNode |-> startNode, endNode |-> endNode,
     distances |-> distances, previousNodes |-> previousNodes, pq |-> pq,
     pc |-> pc, currentNode |-> currentNode, nbrIdx |-> nbrIdx, path |-> path,
     tempNode |-> tempNode, result |-> result, extracted |-> extracted]

\* the arguments of a call frame
Arguments(f) ==
    [graph |-> f.graph, startNode |-> f.startNode, endNode |-> f.endNode]

\* the call frame of dijkstra(args.graph, args.startNode, args.endNode) before
\* its first statement: every call makes its own tables and its own frontier
CallFrame(args) ==
    [graph |-> args.graph, startNode |-> args.startNode, endNode |-> args.endNode,
     distances |-> [n \in {} |-> 0], previousNodes |-> [n \in {} |-> Null],
     pq |-> <<>>, pc |-> "init", currentNode |-> Undefined, nbrIdx |-> 0,
     path |-> <<>>, tempNode |-> Undefined, result |-> Pending, extracted |-> <<>>]

\* the variables become the call frame f
Load(f) ==
    /\ graph' = f.graph
    /\ startNode' = f.startNode
    /\ endNode' = f.endNode
    /\ distances' = f.distances
    /\ previousNodes' = f.previousNodes
    /\ pq' = f.pq
    /\ pc' = f.pc
    /\ currentNode' = f.currentNode
    /\ nbrIdx' = f.nbrIdx
    /\ path' = f.path
    /\ tempNode' = f.tempNode
    /\ result' = f.result
    /\ extracted' = f.extracted

\* the invocation of frame f has ended
Finished(f) == f.pc \in {"done", "diverged"}

\* how the invocation of frame f has ended
Outcome(f) == IF f.pc = "diverged" THEN Diverged ELSE f.result

\* mutant of Resume: the frontier is one object at module level, shared by
\* every invocation
ResumeSharedFrontier(own, other) == [own EXCEPT !.pq = other.pq]

\* the frame an invocation goes on with after another invocation, whose frame
\* is other, has taken steps: distances, previousNodes and pq are locals of
\* the call, so it is the frame own the invocation was left with
Resume(own, other) == own

\* a diamond A-B, A-C, B-D, C-D and the graphs that make every branch of the
\* engine run: a negative self-loop, a key that is the empty string
Diamond(x, y) ==
    SetMirrored(SetMirrored(SetMirrored(SetMirrored(
        FlowNodes(<<>>, <<"A", "B", "C", "D">>),
        "A", "B", x), "A", "C", y), "B", "D", 1), "C", "D", 1)

NegativeLoop ==
    SetEntry(SetMirrored(SetMirrored(FlowNodes(<<>>, <<"A", "B", "C">>),
                                     "A", "B", 0), "B", "C", 0),
             "B", "B", 0 - 1)

EmptyKey ==
    SetMirrored(SetMirrored(FlowNodes(<<>>, <<"A", "", "C">>),
                            "A", "", 0), "", "C", 0)

PairGraphs == {Diamond(x, y) : x, y \in 0..1} \cup {NegativeLoop, EmptyKey}

\* the arguments of the invocations that run side by side
PairArguments ==
    {[graph |-> g, startNode |-> s, endNode |-> e] :
        g \in PairGraphs, s \in {"A", "B"}, e \in {"C", "D"}}

\* a first invocation, alone
PairInit ==
    /\ \E args \in PairArguments :
        /\ graph = args.graph
        /\ startNode = args.startNode
        /\ endNode = args.endNode
    /\ NewFrame
    /\ peer = Nothing
    /\ input = Nothing

\* the first invocation has ended: a second invocation is called, alone
CallSecond ==
    /\ peer.kind = "none"
    /\ Finished(ThisFrame)
    /\ \E args \in PairArguments : Load(CallFrame(args))
    /\ peer' = [kind |-> "second", first |-> Arguments(ThisFrame),
                alone |-> <<Outcome(ThisFrame)>>]
    /\ UNCHANGED input

\* the second invocation has ended: both are called again, to run side by
\* side; the first is in the variables, the second is suspended
CallBoth ==
    /\ peer.kind = "second"
    /\ Finished(ThisFrame)
    /\ Load(CallFrame(peer.first))
    /\ peer' = [kind |-> "pair", running |-> 1,
                alone |-> Append(peer.alone, Outcome(ThisFrame)),
                suspended |-> CallFrame(Arguments(ThisFrame))]
    /\ UNCHANGED input

\* the running invocation is suspended between two of its steps and the
\* other one goes on
Switch ==
    /\ peer.kind = "pair"
    /\ Load(Resume(peer.suspended, ThisFrame))
    /\ peer' = [peer EXCEPT !.running = 3 - @, !.suspended = ThisFrame]
    /\ UNCHANGED input

PairNext ==
    \/ Initialize
    \/ ReturnNull
    \/ ExtractSkip
    \/ ExtractEnd
    \/ ExtractExpand
    \/ Relax
    \/ WalkStep
    \/ WalkDiverge
    \/ CallSecond
    \/ CallBoth
    \/ Switch

PairSpec == PairInit /\ [][PairNext]_vars

(* ------------------------ the page's own graph ------------------------- *)
\* the initial value of graphInput, line by line
DefaultGraphInput ==
    << <<"A", "B", <<"1">>>>, <<"A", "C", <<"4">>>>, <<"B", "C", <<"2">>>>,
       <<"B", "D", <<"7">>>>, <<"C", "D", <<"1">>>>, <<"C", "E", <<"5">>>>,
       <<"D", "E", <<"2">>>>, <<"D", "F", <<"3">>>>, <<"E", "F", <<"6">>>> >>

\* the initial value of nodeNamesInput
DefaultNodeNames == <<"A", "B", "C", "D", "E", "F">>

\* the initial value of matrixInput, row by row
DefaultMatrixInput ==
    << << <<"0">>, <<"1">>, <<"4">>, <<"0">>, <<"0">>, <<"0">> >>,
       << <<"1">>, <<"0">>, <<"2">>, <<"7">>, <<"0">>, <<"0">> >>,
       << <<"4">>, <<"2">>, <<"0">>, <<"1">>, <<"5">>, <<"0">> >>,
       << <<"0">>, <<"7">>, <<"1">>, <<"0">>, <<"2">>, <<"3">> >>,
       << <<"0">>, <<"0">>, <<"5">>, <<"2">>, <<"0">>, <<"6">> >>,
       << <<"0">>, <<"0">>, <<"0">>, <<"3">>, <<"6">>, <<"0">> >> >>

\* s turned round; s with its first k elements moved to the end
ReverseSeq(s) == [i \in 1..Len(s) |-> s[Len(s) + 1 - i]]
Rotate(s, k) == SubSeq(s, k + 1, Len(s)) \o SubSeq(s, 1, k)

\* the same object as g with its keys, or the neighbors of every key, put in
\* in another order
KeysRotated(g, k) == Rotate(g, k)
NeighborsReversed(g) ==
    [i \in 1..Len(g) |-> [g[i] EXCEPT !.adj = ReverseSeq(g[i].adj)]]

\* the graph of the page's initial input as both text producers build it, and
\* the same graph in other enumeration orders
ScenarioGraphs ==
    LET built == {ParseAdjacencyList(DefaultGraphInput).graph,
                  ParseAdjacencyMatrix(DefaultNodeNames, DefaultMatrixInput).graph}
        turned == built \cup {NeighborsReversed(g) : g \in built}
    IN  UNION {{KeysRotated(g, k) : k \in 0..(Len(g) - 1)} : g \in turned}

\* dijkstra(graph, 'A', 'F'): the initial values of startNode and endNode
ScenarioInit ==
    /\ graph \in ScenarioGraphs
    /\ startNode = "A"
    /\ endNode = "F"
    /\ NewFrame
    /\ peer = Nothing
    /\ input = Nothing

\* the steps such a run takes: no extracted node is skipped, the frontier
\* does not run empty, the walk does not go round
ScenarioNext ==
    \/ Initialize
    \/ ExtractEnd
    \/ ExtractExpand
    \/ Relax
    \/ WalkStep

ScenarioSpec == ScenarioInit /\ [][ScenarioNext]_vars

(* ------------------- the same graph in another order ------------------- *)
\* the orders in which n properties can be enumerated
Orders(n) == {p \in [1..n -> 1..n] : \A i, j \in 1..n : p[i] = p[j] => i = j}

\* the same object as g: its keys are enumerated in the order p, and the
\* neighbors of the keys in flipped the other way round
Reordered(g, p, flipped) ==
    [i \in 1..Len(g) |->
        IF g[p[i]].node \in flipped
        THEN [g[p[i]] EXCEPT !.adj = ReverseSeq(@)]
        ELSE g[p[i]]]

\* two components A-B and C-D
Split ==
    SetMirrored(SetMirrored(FlowNodes(<<>>, <<"A", "B", "C", "D">>),
                            "A", "B", 1), "C", "D", 0)

\* graphs with non-negative weights: diamonds with ties, two components, a
\* key that is the empty string
OrderGraphs == {Diamond(x, y) : x, y \in 0..MaxWeight} \cup {Split, EmptyKey}

OrderArguments ==
    {[graph |-> g, startNode |-> s, endNode |-> e] :
        g \in OrderGraphs, s \in {"A", "B"}, e \in {"B", "C", "D"}}

\* a first invocation
OrderInit ==
    /\ \E args \in OrderArguments :
        /\ graph = args.graph
        /\ startNode = args.startNode
        /\ endNode = args.endNode
    /\ NewFrame
    /\ peer = Nothing
    /\ input = Nothing

\* the first invocation has ended: dijkstra is called with the same start and
\* end nodes on the same graph, built in another order
CallReordered ==
    /\ peer.kind = "none"
    /\ Finished(ThisFrame)
    /\ \E p \in Orders(Len(graph)), flipped \in SUBSET Keys(graph) :
        Load(CallFrame([graph     |-> Reordered(graph, p, flipped),
                        startNode |-> startNode,
                        endNode   |-> endNode]))
    /\ peer' = [kind |-> "reordered", first |-> Arguments(ThisFrame),
                alone |-> <<Outcome(ThisFrame)>>]
    /\ UNCHANGED input

\* the walk never comes back to a node with non-negative weights, so the
\* step of a walk that does is left out
OrderNext ==
    \/ Initialize
    \/ ReturnNull
    \/ ExtractSkip
    \/ ExtractEnd
    \/ ExtractExpand
    \/ Relax
    \/ WalkStep
    \/ CallReordered

OrderSpec == OrderInit /\ [][OrderNext]_vars

(* -------------------- the PriorityQueue on its own --------------------- *)
\* the longest queue explored
MaxQueue == 3

\* elements and priorities of the calls explored: an element may be enqueued
\* more than once, a priority is a finite number or Infinity
QueueElements == {"A", "B"}
QueuePriorities == Weights \cup {Infinity}

\* new PriorityQueue()
QueueInit ==
    /\ pq = <<>>
    /\ extracted = <<>>
    /\ pc = "queue"
    /\ graph = <<>>
    /\ startNode = "A"
    /\ endNode = "F"
    /\ distances = [n \in {} |-> 0]
    /\ previousNodes = [n \in {} |-> Null]
    /\ currentNode = Undefined
    /\ nbrIdx = 0
    /\ path = <<>>
    /\ tempNode = Undefined
    /\ result = Pending
    /\ peer = Nothing
    /\ input = Nothing

\* a call pq.enqueue(element, priority)
QueueEnqueue ==
    /\ pc = "queue"
    /\ Len(pq) < MaxQueue
    /\ \E element \in QueueElements, priority \in QueuePriorities :
          pq' = Enqueue(pq, element, priority)
    /\ UNCHANGED <<graph, startNode, endNode, distances, previousNodes, pc,
                   currentNode, nbrIdx, path, tempNode, result, extracted, outside>>

\* a call pq.updatePriority(element, newPriority)
QueueUpdatePriority ==
    /\ pc = "queue"
    /\ \E element \in QueueElements, newPriority \in QueuePriorities :
          pq' = UpdatePriority(pq, element, newPriority)
    /\ UNCHANGED <<graph, startNode, endNode, distances, previousNodes, pc,
                   currentNode, nbrIdx, path, tempNode, result, extracted, outside>>

\* a call pq.dequeue() on a queue that is not empty; extracted holds the
\* entry this call returned
QueueDequeue ==
    /\ pc = "queue"
    /\ ~IsEmpty(pq)
    /\ extracted' = <<Head(pq)>>
    /\ pq' = Tail(pq)
    /\ UNCHANGED <<graph, startNode, endNode, distances, previousNodes, pc,
                   currentNode, nbrIdx, path, tempNode, result, outside>>

QueueNext ==
    \/ QueueEnqueue
    \/ QueueUpdatePriority
    \/ QueueDequeue

QueueSpec == QueueInit /\ [][QueueNext]_vars

(* ---------------------- vocabulary of the properties ------------------- *)
\* every weight of g is non-negative
NonNegative(g) ==
    \A i \in 1..Len(g) : \A j \in 1..Len(g[i].adj) : g[i].adj[j].weight >= 0

\* g is mirrored: graph[u][v] = x implies graph[v][u] = x
Symmetric(g) ==
    \A u \in Keys(g) : \A v \in Neighbors(g, u) :
        HasEdge(g, v, u) /\ Weight(g, v, u) = Weight(g, u, v)

\* the sequences of distinct identifiers
SimplePaths ==
    {p \in UNION {[1..n -> Nodes] : n \in 1..Cardinality(Nodes)} :
        \A i, j \in 1..Len(p) : i # j => p[i] # p[j]}

\* every consecutive pair of p is an entry of g
IsPath(g, p) == \A i \in 1..(Len(p) - 1) : HasEdge(g, p[i], p[i + 1])

RECURSIVE PathWeight(_, _)
\* the sum of the weights of the consecutive pairs of p
PathWeight(g, p) ==
    IF Len(p) < 2 THEN 0
    ELSE Weight(g, p[1], p[2]) + PathWeight(g, Tail(p))

\* the paths of g from s to t that visit no node twice
PathsBetween(g, s, t) ==
    {p \in SimplePaths : p[1] = s /\ p[Len(p)] = t /\ IsPath(g, p)}

\* some sequence of edges of g leads from s to t
Connected(g, s, t) == PathsBetween(g, s, t) # {}

\* the invocation has returned
Returned == pc = "done"
ReturnedResult == pc = "done" /\ result.kind = "result"
ReturnedNull == pc = "done" /\ result.kind = "null"

\* p has no element twice
NoRepeat(p) == \A i, j \in 1..Len(p) : i # j => p[i] # p[j]

(* ------------------------------- claims -------------------------------- *)
\* C1: for a mirrored graph with non-negative weights, when dijkstra returns
\* a result no path from start to end weighs less than the returned distance
C1_NoShorterPath ==
    (ReturnedResult /\ Symmetric(graph) /\ NonNegative(graph)) =>
        \A p \in PathsBetween(graph, startNode, endNode) :
            PathWeight(graph, p) >= result.distance

\* C2: a returned path is made of entries of the graph, and the returned
\* distance is the sum of their weights and the distance-table value of the
\* end node
C2_PathMatchesDistance ==
    ReturnedResult =>
        /\ IsPath(graph, result.path)
        /\ result.distance = PathWeight(graph, result.path)
        /\ result.distance = distances[endNode]

\* C2 as amended: the same for the graphs whose weights are non-negative
C2_NonNegativePathMatchesDistance ==
    NonNegative(graph) => C2_PathMatchesDistance

C2_Witness ==
    /\ ReturnedResult
    /\ NonNegative(graph)
    /\ Len(result.path) >= 3
    /\ result.distance > 0

\* C3: a returned path starts at the start node, ends at the end node and has
\* no node twice
C3_PathFromStartToEnd ==
    ReturnedResult =>
        /\ Len(result.path) > 0
        /\ result.path[1] = startNode
        /\ result.path[Len(result.path)] = endNode
        /\ NoRepeat(result.path)

C3_Witness ==
    /\ ReturnedResult
    /\ Len(result.path) = 3
    /\ ~Symmetric(graph)

\* C4: with non-negative weights, start and end keys of the graph and a
\* sequence of edges from start to end, dijkstra returns a result
C4_ConnectedGivesResult ==
    (pc = "diverged" \/ ReturnedNull) =>
        ~(/\ NonNegative(graph)
          /\ startNode \in Keys(graph)
          /\ endNode \in Keys(graph)
          /\ Connected(graph, startNode, endNode))

\* C5: when the start node or the end node is no key of the graph, dijkstra
\* returns the no-result value
C5_MissingNodeGivesNull ==
    (startNode \notin Keys(graph) \/ endNode \notin Keys(graph)) =>
        /\ pc # "diverged"
        /\ Returned => result.kind = "null"

C5_Witness ==
    /\ ReturnedNull
    /\ startNode \in Keys(graph)
    /\ endNode \notin Keys(graph)
    /\ HasEdge(graph, startNode, endNode)

\* C6: when start and end are keys and no sequence of edges leads from start
\* to end, dijkstra returns the no-result value
C6_DisconnectedGivesNull ==
    (pc = "diverged" \/ ReturnedResult) =>
        ~(/\ startNode \in Keys(graph)
          /\ endNode \in Keys(graph)
          /\ ~Connected(graph, startNode, endNode))

C6_Witness ==
    /\ ReturnedNull
    /\ startNode \in Keys(graph)
    /\ endNode \in Keys(graph)
    /\ Neighbors(graph, startNode) # {}
    /\ Neighbors(graph, endNode) # {}
    /\ ~Connected(graph, startNode, endNode)

\* C7: for a key s of the graph, dijkstra(graph, s, s) returns path [s] and
\* distance 0
C7_StartEqualsEnd ==
    (startNode = endNode /\ startNode \in Keys(graph)) =>
        /\ pc # "diverged"
        /\ Returned => result = Found(<<startNode>>, 0)

\* a variant of the invocation, a natural number: the entries left in the
\* frontier, the neighbors left in the neighbor loop, the keys left for the
\* walk.  A run whose every step lowers it is finite.  In "diverged" the walk
\* loop goes round without a change, and the variant stays as it was
Rank ==
    LET K == Len(graph)
        B == Cardinality(Nodes) + 2
        W == K + 2
    IN  CASE pc = "init"  -> W + (K + 1) * B
          [] pc = "loop"  -> W + Len(pq) * B
          [] pc = "relax" -> W + Len(pq) * B
                               + (Len(NeighborEntries(graph, currentNode)) - nbrIdx + 1)
          [] pc = "walk"  -> K + 1 - Len(path)
          [] pc = "diverged" -> K + 1 - Len(path)
          [] OTHER -> 0

\* C8: every invocation terminates: it returns a result or the no-result
\* value after finitely many steps (every step lowers the variant, which
\* never falls below zero)
C8_Terminates == [][Rank' < Rank /\ Rank' >= 0]_vars

\* C8 as amended: every invocation on a graph whose weights are non-negative
\* terminates
C8_NonNegativeTerminates ==
    [][NonNegative(graph) => (Rank' < Rank /\ Rank' >= 0)]_vars

C8_Witness ==
    /\ Returned
    /\ NonNegative(graph)
    /\ Len(graph) = MaxKeys
    /\ \A n \in Keys(graph) : distances[n] # Infinity

\* C9: the outcome of every invocation is a result or the no-result value:
\* the run is never cut short without one of them (a state where no step is
\* possible is a return; before the first statement Initialize is possible)
C9_OutcomeIsResultOrNull ==
    /\ pc # "diverged"
    /\ (pc # "init" /\ ~ENABLED Next) =>
            (pc = "done" /\ result.kind \in {"result", "null"})

\* C9 as amended: the same for the graphs whose weights are non-negative
C9_NonNegativeOutcomeIsResultOrNull ==
    NonNegative(graph) => C9_OutcomeIsResultOrNull

C9_Witness ==
    /\ Returned
    /\ NonNegative(graph)
    /\ result.kind = "null"
    /\ startNode \in Keys(graph)
    /\ endNode \in Keys(graph)
    /\ \E n \in Keys(graph) : previousNodes[n] # Null

\* C10: no step of an invocation changes the graph
C10_GraphUnchanged == [][graph' = graph]_vars

C10_Witness ==
    /\ Returned
    /\ \E n \in Keys(graph) : previousNodes[n] # Null /\ distances[n] > 0

C12_Scenario1 ==
    /\ Returned => result = Found(<<"A", "B", "C", "D", "F">>, 7)
    /\ pc # "diverged"
    /\ pc = "loop" => (~IsEmpty(pq) /\ ~SkipNode(Head(pq).element, distances))
    /\ pc = "walk" => tempNode \notin Range(path)

C12_Witness ==
    /\ Returned
    /\ result.distance = 7
    /\ Len(result.path) = 5
    /\ KeySeq(graph)[1] = "F"

\* every weight of g is zero
AllZero(g) ==
    \A i \in 1..Len(g) : \A j \in 1..Len(g[i].adj) : g[i].adj[j].weight = 0

\* the graph with the single edge A-B of weight 0
SingleZeroEdge == SetMirrored(FlowNodes(<<>>, <<"A", "B">>), "A", "B", 0)

\* C13: zero-weight edges are traversed like any other edge: on the graph
\* with the single edge A-B(0), dijkstra from A to B returns path [A,B] and
\* distance 0; and when every edge weighs zero and a sequence of edges leads
\* from the key start to the key end, dijkstra returns distance 0 and a path
\* that starts at start
C13_ZeroWeightEdges ==
    /\ (Returned /\ graph = SingleZeroEdge /\ startNode = "A" /\ endNode = "B") =>
            result = Found(<<"A", "B">>, 0)
    /\ (/\ Returned
        /\ ~(/\ result.kind = "result"
             /\ result.distance = 0
             /\ First(result.path) = startNode)) =>
            ~(/\ AllZero(graph)
              /\ startNode \in Keys(graph)
              /\ endNode \in Keys(graph)
              /\ Connected(graph, startNode, endNode))

C15_ProducersMirror == pc = "produced" => Symmetric(graph)

\* the numeric strings of the input that parseInt reads as a negative number
NegativeToken(tok) == ParseInt(tok) # NaN /\ ParseInt(tok) < 0

\* C16: the graph a producer returns has no negative weight, and an
\* adjacency list with a negative weight yields no graph
C16_ProducersNonNegative ==
    /\ pc = "produced" => NonNegative(graph)
    /\ (/\ input.kind = "list"
        /\ \E i \in 1..Len(input.lines) :
              Len(input.lines[i]) = 3 /\ NegativeToken(input.lines[i][3])) =>
            pc # "produced"

C16_Witness ==
    /\ pc = "produced"
    /\ input.kind = "matrix"
    /\ \E i, j \in 1..Len(input.rows) : NegativeToken(input.rows[i][j])
    /\ \E u \in Keys(graph) : Neighbors(graph, u) # {}

\* C17: after the initialisation loop and before the first extraction, the
\* distance table and the predecessor table have exactly the keys of the
\* graph, with distance 0 for the start node, Infinity for every other key
\* and predecessor null for every key, and the frontier has exactly one entry
\* per key, whose priority is the distance of the key
C17_AfterInitialization ==
    (pc = "loop" /\ extracted = <<>>) =>
        /\ DOMAIN distances = Keys(graph)
        /\ DOMAIN previousNodes = Keys(graph)
        /\ \A n \in Keys(graph) :
            /\ distances[n] = (IF n = startNode THEN 0 ELSE Infinity)
            /\ previousNodes[n] = Null
            /\ Cardinality({i \in 1..Len(pq) : pq[i].element = n}) = 1
            /\ \A i \in 1..Len(pq) :
                  pq[i].element = n => pq[i].priority = distances[n]
        /\ \A i \in 1..Len(pq) : pq[i].element \in Keys(graph)

C17_Witness ==
    /\ pc = "loop"
    /\ extracted = <<>>
    /\ Len(graph) = MaxKeys
    /\ startNode \in Keys(graph)
    /\ KeySeq(graph)[1] # startNode
    /\ Head(pq).element = startNode

\* C18: for a graph with non-negative weights, the priorities of the entries
\* extracted from the frontier during one run never decrease (Infinity is
\* larger than every finite priority)
C18_ExtractionOrder ==
    NonNegative(graph) =>
        \A i \in 1..(Len(extracted) - 1) :
            extracted[i].priority <= extracted[i + 1].priority

C18_Witness ==
    /\ NonNegative(graph)
    /\ Len(extracted) = 3
    /\ extracted[1].priority < extracted[2].priority
    /\ extracted[2].priority < extracted[3].priority
    /\ extracted[3].priority = Infinity
    /\ \E n \in Keys(graph) : previousNodes[n] # Null

\* d is the least total weight of a path of g from s to t
IsMinimumWeight(g, s, t, d) ==
    /\ \E p \in PathsBetween(g, s, t) : PathWeight(g, p) = d
    /\ \A p \in PathsBetween(g, s, t) : PathWeight(g, p) >= d

\* C19: for a graph with non-negative weights, at the moment a node is
\* extracted from the frontier with a finite distance, its distance-table
\* value is the least total weight of a path from start to that node
C19_ExtractedDistanceIsMinimum ==
    (/\ pc = "loop"
     /\ ~IsEmpty(pq)
     /\ NonNegative(graph)
     /\ distances[Head(pq).element] # Infinity) =>
        IsMinimumWeight(graph, startNode, Head(pq).element,
                        distances[Head(pq).element])

\* the nodes extracted so far
ExtractedNodes == {extracted[i].element : i \in 1..Len(extracted)}

\* C20: for a graph with non-negative weights, whenever a step lowers the
\* distance of a node, the node has not been extracted, and right after the
\* step the frontier has an entry for it whose priority is the new distance
C20_LoweredNodeIsQueued ==
    [][(NonNegative(graph) /\ pc # "init") =>
        \A n \in DOMAIN distances :
            distances'[n] < distances[n] =>
                /\ n \notin ExtractedNodes
                /\ \E i \in 1..Len(pq') : pq'[i].element = n
                /\ \A i \in 1..Len(pq') :
                      pq'[i].element = n => pq'[i].priority = distances'[n]]_vars

C20_Witness ==
    /\ NonNegative(graph)
    /\ pc = "relax"
    /\ \E n \in Keys(graph) :
        /\ HasEdge(graph, startNode, n)
        /\ distances[n] < Weight(graph, startNode, n)
        /\ previousNodes[n] \notin {Null, startNode}
        /\ \E i \in 1..Len(pq) : pq[i].element = n /\ pq[i].priority = distances[n]

\* C21: after any sequence of enqueue, updatePriority and dequeue calls,
\* dequeue removes the first entry and returns it, and its priority is less
\* than or equal to the priority of every entry that remains (two infinite
\* priorities are equal, an infinite one is larger than every finite one)
C21_DequeueReturnsMinimum ==
    [][Len(pq') < Len(pq) =>
        /\ Len(pq') = Len(pq) - 1
        /\ extracted' # <<>>
        /\ \A i \in 1..Len(pq') :
              extracted'[Len(extracted')].priority <= pq'[i].priority
        /\ \E k \in 1..Len(pq) :
              /\ pq[k] = extracted'[Len(extracted')]
              /\ pq' = SubSeq(pq, 1, k - 1) \o SubSeq(pq, k + 1, Len(pq))]_vars

C21_Witness ==
    /\ pc = "queue"
    /\ extracted # <<>>
    /\ extracted[1].priority = 0
    /\ Len(pq) = 2
    /\ pq[1].priority < 0
    /\ pq[2].priority = Infinity
    /\ pq[1].element = pq[2].element

\* C22: in every state of a run, the priority of every entry of the frontier
\* is the distance-table value of the entry's node; in particular the entry
\* about to be extracted carries the distance its node is relaxed from
C22_PriorityIsDistance ==
    pc \in {"loop", "relax", "walk", "done", "diverged"} =>
        \A i \in 1..Len(pq) :
            /\ pq[i].element \in DOMAIN distances
            /\ pq[i].priority = distances[pq[i].element]

C22_Witness ==
    /\ pc = "loop"
    /\ Len(pq) = 2
    /\ pq[1].priority < pq[2].priority
    /\ pq[2].priority < Infinity
    /\ previousNodes[pq[1].element] = startNode
    /\ previousNodes[pq[2].element] = startNode
    /\ \E i, j \in 1..Len(graph) :
          i < j /\ graph[i].node = pq[2].element /\ graph[j].node = pq[1].element

\* no two entries of elements have the same element
OneEntryPerNode(elements) ==
    \A i, j \in 1..Len(elements) :
        i # j => elements[i].element # elements[j].element

\* C23: in every state of a run each node has at most one entry in the
\* frontier; after the initialisation a step that extracts takes exactly one
\* entry out and every other step leaves the number of entries as it is, each
\* loop iteration extracts, no node is extracted twice and no more entries
\* are extracted than the graph has keys
C23_FrontierOnlyShrinks ==
    [][/\ OneEntryPerNode(pq')
       /\ pc # "init" =>
            IF extracted' # extracted
            THEN /\ Len(extracted') = Len(extracted) + 1
                 /\ Len(pq') = Len(pq) - 1
            ELSE Len(pq') = Len(pq)
       /\ (pc = "loop" /\ ~IsEmpty(pq)) => extracted' # extracted
       /\ OneEntryPerNode(extracted')
       /\ Len(extracted') <= Len(graph)]_vars

C23_Witness ==
    /\ Returned
    /\ Len(graph) = MaxKeys
    /\ Len(extracted) = Len(graph)
    /\ result.kind = "result"
    /\ ~NonNegative(graph)
    /\ \E n \in ExtractedNodes : n \in DOMAIN distances /\ distances[n] < 0

\* C24: over one run the distance of every node never rises: each step
\* leaves the distance-table value of a node as it is or replaces it by a
\* strictly smaller one, and no entry of the table is removed
C24_DistancesNeverRise ==
    [][\A n \in DOMAIN distances :
          /\ n \in DOMAIN distances'
          /\ distances'[n] <= distances[n]]_vars

C24_Witness ==
    /\ Returned
    /\ \E n \in Keys(graph) :
        /\ HasEdge(graph, startNode, n)
        /\ distances[n] < Weight(graph, startNode, n)
        /\ previousNodes[n] \notin {Null, startNode}
    /\ \E n \in Keys(graph) : distances[n] = Infinity

\* C25: in every step, the predecessor entry of a node changes exactly when
\* the distance entry of that node is lowered in the same step, and the new
\* predecessor is the node of the latest extraction; the two tables keep the
\* same keys
C25_PredecessorInLockStep ==
    [][/\ DOMAIN previousNodes' = DOMAIN distances'
       /\ \A n \in DOMAIN previousNodes :
            IF distances'[n] < distances[n]
            THEN /\ extracted # <<>>
                 /\ previousNodes'[n] = extracted[Len(extracted)].element
                 /\ previousNodes'[n] # previousNodes[n]
            ELSE previousNodes'[n] = previousNodes[n]]_vars

C25_Witness ==
    /\ pc = "relax"
    /\ \E n \in Keys(graph) :
        /\ previousNodes[n] = currentNode
        /\ currentNode # startNode
        /\ distances[n] < Infinity
        /\ HasEdge(graph, startNode, n)
        /\ Weight(graph, startNode, n) > distances[n]
    /\ \E m \in Keys(graph) :
        /\ HasEdge(graph, currentNode, m)
        /\ Plus(distances[currentNode], Weight(graph, currentNode, m)) = distances[m]
        /\ previousNodes[m] \notin {Null, currentNode}

\* an entry dequeued so far had priority Infinity
InfiniteExtracted(entries) ==
    \E i \in 1..Len(entries) : entries[i].priority = Infinity

\* C26: from the extraction of a node whose distance is Infinity on (that
\* step included), no step changes a distance or a predecessor, the run stays
\* in the main loop until it returns, every step lowers the variant, and what
\* it returns is the no-result value
C26_InfiniteExtractionEndsRun ==
    [][InfiniteExtracted(extracted') =>
          /\ extracted'[Len(extracted')].priority = Infinity
          /\ distances[extracted'[Len(extracted')].element] = Infinity
          /\ distances' = distances
          /\ previousNodes' = previousNodes
          /\ pc' \in {"loop", "done"}
          /\ pc' = "done" => result' = NoResult
          /\ Rank' < Rank /\ Rank' >= 0]_vars

C26_Witness ==
    /\ ReturnedNull
    /\ Len(extracted) = MaxKeys
    /\ extracted[1].priority = 0
    /\ extracted[2].priority = Infinity
    /\ extracted[MaxKeys].element = endNode
    /\ \E n \in Keys(graph) : HasEdge(graph, n, endNode)

\* an entry dequeued so far was the end node with a finite priority
EndExtracted(entries) ==
    \E i \in 1..Len(entries) :
        entries[i].element = endNode /\ entries[i].priority # Infinity

\* C27: from the extraction of the end node with a finite distance on (that
\* step included), no step changes a distance or a predecessor, no later step
\* extracts an entry, the run is in the path reconstruction until it returns,
\* and every step lowers the variant (the reconstruction returns)
C27_EndExtractionStopsLoop ==
    [][EndExtracted(extracted') =>
          /\ distances' = distances
          /\ previousNodes' = previousNodes
          /\ EndExtracted(extracted) => extracted' = extracted
          /\ pc' \in {"walk", "done"}
          /\ Rank' < Rank /\ Rank' >= 0]_vars

RECURSIVE ReachedFrom(_, _)
\* the identifiers that a sequence of entries of g leads to from one of seen
\* (the empty sequence included)
ReachedFrom(g, seen) ==
    LET more == seen \cup {v \in Nodes : \E u \in seen : HasEdge(g, u, v)}
    IN  IF more = seen THEN seen ELSE ReachedFrom(g, more)

\* C28: once the tables are initialised, every key that no sequence of
\* entries leads to from the start node has distance Infinity and predecessor
\* null, in every state of the run
C28_UnreachedStayInfinite ==
    pc # "init" =>
        \A n \in Keys(graph) \ ReachedFrom(graph, {startNode}) :
            distances[n] = Infinity /\ previousNodes[n] = Null

C28_Witness ==
    /\ Returned
    /\ startNode \in Keys(graph)
    /\ \E n \in Keys(graph) \ ReachedFrom(graph, {startNode}) :
        /\ HasEdge(graph, n, startNode)
        /\ \E i \in 1..Len(extracted) : extracted[i].element = n
    /\ \E m \in Keys(graph) : distances[m] \notin {0, Infinity}

\* C29: with non-negative weights, an invocation on the same graph with its
\* keys and the neighbors of its keys enumerated in another order ends as
\* the first one did: both return the no-result value, or both return a result
\* and the two distances are equal; no walk comes back to a node
C29_OrderDoesNotChangeDistance ==
    /\ pc = "walk" => tempNode \notin Range(path)
    /\ pc # "diverged"
    /\ (peer.kind = "reordered" /\ Finished(ThisFrame)) =>
        /\ NonNegative(graph)
        /\ Keys(graph) = Keys(peer.first.graph)
        /\ result.kind = peer.alone[1].kind
        /\ result.distance = peer.alone[1].distance

C29_Witness ==
    /\ peer.kind = "reordered"
    /\ ReturnedResult
    /\ KeySeq(graph) # KeySeq(peer.first.graph)
    /\ result.path # peer.alone[1].path
    /\ result.distance = peer.alone[1].distance
    /\ result.distance > 0

\* C30: in a run on a graph with non-negative weights, the extraction of
\* the end node with a finite distance starts the first walk; the walk is
\* never left through its loop condition or through its return null (at every
\* node of the walk the condition holds, the node is new, and off the start
\* node the predecessor is a node), and it is left at the start node only:
\* the invocation then returns the path the walk has built, which begins with
\* the start node, and the distance of the end node, so no branch of lines
\* 49-92 has run
C30_FirstWalkSuffices ==
    [][NonNegative(graph) =>
          /\ (EndExtracted(extracted') /\ ~EndExtracted(extracted)) => pc' = "walk"
          /\ pc' = "walk" =>
                /\ EndExtracted(extracted')
                /\ WalkCondition(tempNode', previousNodes')
                /\ tempNode' \notin Range(path')
                /\ tempNode' # startNode => ~Falsy(previousNodes'[tempNode'])
          /\ (pc = "walk" /\ pc' # "walk") =>
                /\ tempNode = startNode
                /\ pc' = "done"
                /\ result' = Found(<<startNode>> \o path, distances[endNode])]_vars

RECURSIVE ReachesStart(_, _, _, _)
\* following prev from n leads to start, and no node comes twice on the way
ReachesStart(n, seen, prev, start) ==
    IF n = start THEN TRUE
    ELSE IF n \in seen THEN FALSE
    ELSE IF Lookup(prev, n) \in {Null, Undefined} THEN FALSE
    ELSE ReachesStart(prev[n], seen \cup {n}, prev, start)

\* C31: once the tables are initialised, the start node has predecessor null,
\* and from every node whose distance is finite the predecessor links lead to
\* the start node without a node coming twice
C31_PredecessorsLeadToStart ==
    pc # "init" =>
        /\ startNode \in DOMAIN previousNodes => previousNodes[startNode] = Null
        /\ \A n \in DOMAIN distances :
              distances[n] # Infinity => ReachesStart(n, {}, previousNodes, startNode)

\* C31 as amended: the same for the graphs whose weights are non-negative
C31_NonNegativePredecessorsLeadToStart ==
    NonNegative(graph) => C31_PredecessorsLeadToStart

C31_Witness ==
    /\ pc = "loop"
    /\ NonNegative(graph)
    /\ \E n \in Keys(graph) :
        /\ previousNodes[n] \notin {Null, startNode}
        /\ previousNodes[previousNodes[n]] = startNode
        /\ distances[n] = 0
        /\ HasEdge(graph, n, startNode)
        /\ Weight(graph, n, startNode) = 0

\* C32: once the tables are initialised, the keys of distances and of
\* previousNodes are the keys of the graph; every entry of the frontier,
\* every extracted entry, every predecessor and every node of a returned path
\* is a key of the graph
C32_OnlyKeysAreNodes ==
    pc # "init" =>
        /\ DOMAIN distances = Keys(graph)
        /\ DOMAIN previousNodes = Keys(graph)
        /\ \A i \in 1..Len(pq) : pq[i].element \in Keys(graph)
        /\ \A i \in 1..Len(extracted) : extracted[i].element \in Keys(graph)
        /\ \A n \in DOMAIN previousNodes : previousNodes[n] \in Keys(graph) \cup {Null}
        /\ ReturnedResult => Range(result.path) \subseteq Keys(graph)

C32_Witness ==
    /\ ReturnedResult
    /\ Len(result.path) >= 2
    /\ \E i \in 1..Len(extracted) :
        /\ extracted[i].element # endNode
        /\ extracted[i].priority # Infinity
        /\ ~Falsy(extracted[i].element)
        /\ \E v \in Neighbors(graph, extracted[i].element) : v \notin Keys(graph)

\* C33: with non-negative weights, once the tables are initialised, for every
\* node v whose predecessor is a node u there is an entry graph[u][v], and
\* distances[v] = distances[u] + graph[u][v]
C33_DistanceThroughPredecessor ==
    (pc # "init" /\ NonNegative(graph)) =>
        \A v \in DOMAIN previousNodes :
            previousNodes[v] # Null =>
                /\ HasEdge(graph, previousNodes[v], v)
                /\ distances[v] = Plus(distances[previousNodes[v]],
                                       Weight(graph, previousNodes[v], v))

C33_Witness ==
    /\ Returned
    /\ NonNegative(graph)
    /\ \E v \in Keys(graph) :
        /\ previousNodes[v] \notin {Null, startNode}
        /\ distances[previousNodes[v]] > 0
        /\ distances[v] > distances[previousNodes[v]]
        /\ HasEdge(graph, v, startNode)

\* C34: once the tables are initialised, the predecessor of a node is null
\* exactly when the node is the start node or its distance is Infinity
C34_NullPredecessor ==
    pc # "init" =>
        \A n \in DOMAIN previousNodes :
            previousNodes[n] = Null <=> (n = startNode \/ distances[n] = Infinity)

\* C34 as amended: the same for the graphs whose weights are non-negative
C34_NonNegativeNullPredecessor ==
    NonNegative(graph) => C34_NullPredecessor

C34_Witness ==
    /\ pc = "relax"
    /\ NonNegative(graph)
    /\ Len(graph) = MaxKeys
    /\ previousNodes[startNode] = Null
    /\ \E n, m \in Keys(graph) :
        /\ previousNodes[n] = startNode
        /\ distances[n] = 0
        /\ HasEdge(graph, n, startNode)
        /\ previousNodes[m] = Null
        /\ distances[m] = Infinity

\* C35: a step that extracts a node whose distance is finite processes it,
\* whatever its identifier: the end node starts the path reconstruction, any
\* other node that has neighbor entries enters the neighbor loop; a step that
\* extracts a node whose distance is Infinity goes back to the loop test
C35_FiniteNodesAreProcessed ==
    [][extracted' # extracted =>
          IF distances[Head(pq).element] = Infinity
          THEN pc' = "loop"
          ELSE IF Head(pq).element = endNode
          THEN pc' = "walk"
          ELSE Len(NeighborEntries(graph, Head(pq).element)) > 0 => pc' = "relax"]_vars

\* C36: a returned result has a path that is not empty, and its distance is
\* the distance-table value of the end node, which is not Infinity
C36_ResultIsFiniteAndNonEmpty ==
    ReturnedResult =>
        /\ Len(result.path) > 0
        /\ endNode \in DOMAIN distances
        /\ result.distance = distances[endNode]
        /\ result.distance # Infinity

C36_Witness ==
    /\ ReturnedResult
    /\ Len(result.path) = 2
    /\ result.distance = 0
    /\ ~IsEmpty(pq)
    /\ \A i \in 1..Len(pq) : pq[i].priority = Infinity
    /\ \E n \in Keys(graph) : HasEdge(graph, n, endNode) /\ distances[n] = Infinity

====
